---------------------------- MODULE Spec2Model ----------------------------
(***************************************************************************)
(* The dealer of nano-gpu-scheduler (pkg/dealer/dealer.go): the registry   *)
(* of nodes and known pods behind the scheduler extender.                  *)
(*                                                                         *)
(* Every public method of DealerImpl takes d.Lock on entry and releases it *)
(* on return, so one method call is one atomic action in Spec.  The        *)
(* cluster API (node lister, pod list/get/update, Binding) is the          *)
(* environment: its outcomes are chosen nondeterministically.              *)
(*                                                                         *)
(* ConcurrentSpec takes the methods apart: concurrent callers that block   *)
(* in d.Lock.Lock(), getNodeInfo in its two halves (the lookups, then the  *)
(* seeding), the goroutines of the fan-out of Assume, and the callers of   *)
(* Status and PrintStatus, which take no lock.  FanOutSpec is one filter   *)
(* request at that grain, over candidate lists that may name a node more   *)
(* than once, with the fairness of the Go scheduler.                       *)
(*                                                                         *)
(* The per-node engine (NodeInfo, Plan, Demand, Rater) is not part of      *)
(* dealer.go; it is modelled from sections 3, 4.1, 4.2 and 4.4 of the      *)
(* design document.                                                        *)
(***************************************************************************)
EXTENDS Integers, Sequences, FiniteSets, TLC

(***************************************************************************)
(* Bounds of the model.                                                    *)
(***************************************************************************)
NumPods == 2
MaxCandidates == 2
NumCallers == 2
MaxCalls == 2

(***************************************************************************)
(* The cluster: nodes, their GPU inventory, the pods and their requests.   *)
(***************************************************************************)
Nodes == {"n1", "n2"}
NoNode == ""
UIDs == 1..NumPods

TotalCore == 100
TotalMemory == 16384

\* Number of GPUs the node's capacity labels declare.
GPUCount(name) == IF name = "n1" THEN 2 ELSE 1
GPUIds(name) == 0..(GPUCount(name) - 1)

\* NewDemandFromPod: the (core, memory) requests of the pod's GPU-bearing
\* containers, in container order.
NewDemandFromPod(uid) ==
    CASE uid % 3 = 1 -> << [core |-> 40, memory |-> 8192] >>
      [] uid % 3 = 2 -> << [core |-> 60, memory |-> 8192],
                           [core |-> 60, memory |-> 8192] >>
      [] OTHER       -> << [core |-> 30, memory |-> 4096] >>

\* The bounds of a node's score in the extender contract.
ScoreMin == 0
ScoreMax == 10

\* The rater the deployment selects (--priority binpack).
Priority == "binpack"

NoPlan == [Demand |-> << >>, GPUIndexes |-> << >>]

VARIABLES
    NodeMaps,        \* d.NodeMaps: node name -> NodeInfo
    PodMaps,         \* d.PodMaps: pod UID -> the pod object recorded
    ReleasedPodMap,  \* d.ReleasedPodMap: set of pod UIDs
    pods,            \* the cluster's pod objects: UID -> [NodeName, GPUIndexes]
    last,            \* the last Dealer call: its arguments, what it saw on
                     \* entry, the API calls it made and what it returned
    Lock,            \* d.Lock: 0 when free, else the caller whose method holds it
    call,            \* per caller, the method call in progress and its locals
    reader,          \* the caller of Status and PrintStatus
    seeds,           \* node name -> how often getNodeInfo has created a
                     \* NodeInfo for it since NewDealer returned
    ncalls           \* the number of method calls made so far

cvars == << Lock, call, reader, seeds, ncalls >>
vars == << NodeMaps, PodMaps, ReleasedPodMap, pods, last, Lock, call, reader,
           seeds, ncalls >>

\* The pod object of the cluster for a UID, as handed to the Dealer.
PodObject(cluster, uid) ==
    [UID |-> uid, NodeName |-> cluster[uid].NodeName,
     GPUIndexes |-> cluster[uid].GPUIndexes]

\* The state of a DealerImpl as one value.
Dealer(nm, pm, rel) == [NodeMaps |-> nm, PodMaps |-> pm, ReleasedPodMap |-> rel]

\* make(map), delete(m, k) and m[k] = v of a Go map.
EmptyMap == [x \in {} |-> 0]
MapDelete(m, k) == [x \in (DOMAIN m) \ {k} |-> m[x]]
MapPut(m, k, v) == [x \in (DOMAIN m) \cup {k} |-> IF x = k THEN v ELSE m[x]]

(***************************************************************************)
(* The node engine (design document, 4.2 and 4.4).                         *)
(***************************************************************************)
\* A container request fits on a GPU iff the residual core and memory
\* both cover it.
CanAllocate(gpu, req) ==
    /\ TotalCore - gpu.core >= req.core
    /\ TotalMemory - gpu.memory >= req.memory

\* Commit and revert: the only mutations of a GPU's counters.
Add(gpu, req) == [core |-> gpu.core + req.core, memory |-> gpu.memory + req.memory]
Sub(gpu, req) == [core |-> gpu.core - req.core, memory |-> gpu.memory - req.memory]

\* NewNodeInfo: every GPU of the node with nothing committed, no tentative plan.
NewNodeInfo(name) ==
    [Name |-> name,
     GPUs |-> [i \in GPUIds(name) |-> [core |-> 0, memory |-> 0]],
     plan |-> NoPlan]

\* The GPU the rater prefers for one request: bin-pack takes the smallest
\* residual after placement, spread the largest, ties to the lower index.
\* -1 when the request fits on no GPU.
Residual(gpu, req) == TotalCore - gpu.core - req.core
Better(pol, a, b) == IF pol = "binpack" THEN a < b ELSE a > b
Choose(gpus, req, pol) ==
    LET fit == {i \in DOMAIN gpus : CanAllocate(gpus[i], req)}
    IN  IF fit = {} THEN -1
        ELSE CHOOSE i \in fit :
               \A j \in fit \ {i} :
                  \/ Better(pol, Residual(gpus[i], req), Residual(gpus[j], req))
                  \/ /\ Residual(gpus[i], req) = Residual(gpus[j], req)
                     /\ i < j

\* The greedy fit: container by container, committing as it goes.
RECURSIVE Fit(_, _, _, _, _)
Fit(gpus, demand, k, indexes, pol) ==
    IF k > Len(demand) THEN [ok |-> TRUE, GPUs |-> gpus, GPUIndexes |-> indexes]
    ELSE LET i == Choose(gpus, demand[k], pol)
         IN  IF i = -1
             THEN [ok |-> FALSE, GPUs |-> gpus, GPUIndexes |-> indexes]
             ELSE Fit([gpus EXCEPT ![i] = Add(gpus[i], demand[k])],
                      demand, k + 1, Append(indexes, i), pol)

\* The counters with a plan's containers added to, or subtracted from, the
\* GPUs the plan names.
RECURSIVE Commit(_, _, _)
Commit(gpus, plan, k) ==
    IF k > Len(plan.GPUIndexes) THEN gpus
    ELSE LET i == plan.GPUIndexes[k]
         IN  Commit([gpus EXCEPT ![i] = Add(gpus[i], plan.Demand[k])], plan, k + 1)

RECURSIVE Revert(_, _, _)
Revert(gpus, plan, k) ==
    IF k > Len(plan.GPUIndexes) THEN gpus
    ELSE LET i == plan.GPUIndexes[k]
         IN  Revert([gpus EXCEPT ![i] = Sub(gpus[i], plan.Demand[k])], plan, k + 1)

\* Whether every container of the plan fits on its GPU, cumulatively.
RECURSIVE PlanFits(_, _, _)
PlanFits(gpus, plan, k) ==
    IF k > Len(plan.GPUIndexes) THEN TRUE
    ELSE LET i == plan.GPUIndexes[k]
         IN  /\ CanAllocate(gpus[i], plan.Demand[k])
             /\ PlanFits([gpus EXCEPT ![i] = Add(gpus[i], plan.Demand[k])], plan, k + 1)

ValidPlan(ni, plan) ==
    /\ Len(plan.GPUIndexes) = Len(plan.Demand)
    /\ \A k \in 1..Len(plan.GPUIndexes) : plan.GPUIndexes[k] \in DOMAIN ni.GPUs

\* NodeInfo.cleanPlan: revert and drop the tentative plan, if any.
cleanPlan(ni) ==
    IF ni.plan = NoPlan THEN ni
    ELSE [ni EXCEPT !.GPUs = Revert(ni.GPUs, ni.plan, 1), !.plan = NoPlan]

\* NodeInfo.Assume: run the fit; on success commit the counters and record
\* the tentative plan, on failure leave the node as it was.
NodeAssume(ni, demand, pol) ==
    LET f == Fit(ni.GPUs, demand, 1, << >>, pol)
    IN  IF f.ok
        THEN [ok |-> TRUE,
              ni |-> [ni EXCEPT !.GPUs = f.GPUs,
                                !.plan = [Demand |-> demand,
                                          GPUIndexes |-> f.GPUIndexes]]]
        ELSE [ok |-> FALSE, ni |-> ni]

\* NodeInfo.Bind: promote the tentative plan of this demand to a bound plan.
NodeBind(ni, demand) ==
    IF ni.plan # NoPlan /\ ni.plan.Demand = demand
    THEN [err |-> FALSE, plan |-> ni.plan, ni |-> [ni EXCEPT !.plan = NoPlan]]
    ELSE [err |-> TRUE, plan |-> NoPlan, ni |-> ni]

\* NodeInfo.Allocate: commit an already decided plan; a plan that does not
\* fit is refused.
NodeAllocate(ni, plan) ==
    IF ValidPlan(ni, plan) /\ PlanFits(ni.GPUs, plan, 1)
    THEN [err |-> FALSE, ni |-> [ni EXCEPT !.GPUs = Commit(ni.GPUs, plan, 1)]]
    ELSE [err |-> TRUE, ni |-> ni]

\* NodeInfo.Release: subtract the plan's counters.
NodeRelease(ni, plan) ==
    IF ValidPlan(ni, plan)
    THEN [err |-> FALSE, ni |-> [ni EXCEPT !.GPUs = Revert(ni.GPUs, plan, 1)]]
    ELSE [err |-> TRUE, ni |-> ni]

\* The rater's score of one GPU for one request: bin-pack rates the share
\* of the card in use after the placement, spread the share left free.
Rate(gpu, req, pol) ==
    IF pol = "binpack" THEN (ScoreMax * (gpu.core + req.core)) \div TotalCore
    ELSE (ScoreMax * Residual(gpu, req)) \div TotalCore

\* The sum of the scores of the GPUs the fit chose, container by container.
RECURSIVE SumRates(_, _, _, _, _)
SumRates(gpus, demand, indexes, pol, k) ==
    IF k > Len(indexes) THEN 0
    ELSE Rate(gpus[indexes[k]], demand[k], pol)
           + SumRates([gpus EXCEPT ![indexes[k]] = Add(gpus[indexes[k]], demand[k])],
                      demand, indexes, pol, k + 1)

Clamp(x) == IF x < ScoreMin THEN ScoreMin ELSE IF x > ScoreMax THEN ScoreMax ELSE x

\* NodeInfo.Score: the fit in dry mode (nothing is committed); ScoreMin
\* when the fit fails, else the composed score, clamped.
NodeScore(ni, demand, pol) ==
    LET f == Fit(ni.GPUs, demand, 1, << >>, pol)
    IN  IF ~f.ok THEN ScoreMin
        ELSE Clamp(SumRates(ni.GPUs, demand, f.GPUIndexes, pol, 1))

\* NewPlanFromPod: the plan in the pod's annotations; malformed when the
\* number of indices is not the number of GPU-bearing containers.
NewPlanFromPod(pod) ==
    LET demand == NewDemandFromPod(pod.UID)
    IN  IF Len(pod.GPUIndexes) = Len(demand)
        THEN [err |-> FALSE, plan |-> [Demand |-> demand, GPUIndexes |-> pod.GPUIndexes]]
        ELSE [err |-> TRUE, plan |-> NoPlan]


(***************************************************************************)
(* DealerImpl (dealer.go).  Each method is an operator from the state on   *)
(* entry, the arguments and the cluster API's outcomes to the state on     *)
(* return and the value returned.                                          *)
(***************************************************************************)
\* What the node lister and the pod list can answer during getNodeInfo.
APIOutcomes == {"ok", "nodeErr", "listErr"}

\* pods.Items of the List call of getNodeInfo: the pods labelled
\* GPUAssume=true (the label is set together with the plan annotation)
\* whose spec.nodeName is the node.
AssumedPodsOn(cluster, name) ==
    {u \in UIDs : cluster[u].NodeName = name /\ cluster[u].GPUIndexes # << >>}

\* The replay loop of getNodeInfo over pods.Items: a pod whose plan is
\* malformed or does not fit is logged and skipped, the others are
\* allocated on the node and recorded in PodMaps.  (The loop stores &pod;
\* no method of the dealer reads the object stored under a UID, only
\* whether the UID is a key, so each UID keeps its own pod here.)
RECURSIVE Replay(_, _, _, _)
Replay(ni, pm, cluster, todo) ==
    IF todo = {} THEN [ni |-> ni, PodMaps |-> pm]
    ELSE LET u == CHOOSE x \in todo : \A y \in todo : x <= y
             pod == PodObject(cluster, u)
             p == NewPlanFromPod(pod)
         IN  IF p.err THEN Replay(ni, pm, cluster, todo \ {u})
             ELSE LET a == NodeAllocate(ni, p.plan)
                  IN  IF a.err THEN Replay(ni, pm, cluster, todo \ {u})
                      ELSE Replay(a.ni, MapPut(pm, u, pod), cluster, todo \ {u})

\* getNodeInfo that enters the new NodeInfo in NodeMaps before it lists the
\* node's pods: a failed list leaves an unseeded NodeInfo behind.
getNodeInfo_RecordsOnListErr(d, cluster, name, api) ==
    IF name \in DOMAIN d.NodeMaps THEN [err |-> FALSE, d |-> d]
    ELSE IF name = NoNode \/ api = "nodeErr" THEN [err |-> TRUE, d |-> d]
    ELSE IF api = "listErr"
         THEN [err |-> TRUE,
               d |-> [d EXCEPT !.NodeMaps = MapPut(@, name, NewNodeInfo(name))]]
    ELSE LET r == Replay(NewNodeInfo(name), d.PodMaps, cluster,
                         AssumedPodsOn(cluster, name))
         IN  [err |-> FALSE,
              d |-> [d EXCEPT !.NodeMaps = MapPut(@, name, r.ni),
                              !.PodMaps = r.PodMaps]]

\* DealerImpl.getNodeInfo: the cached NodeInfo, or a new one seeded from
\* the node's GPU-assumed pods; nothing is recorded when a lookup fails.
getNodeInfo(d, cluster, name, api) ==
    IF name \in DOMAIN d.NodeMaps THEN [err |-> FALSE, d |-> d]
    ELSE IF name = NoNode \/ api = "nodeErr" THEN [err |-> TRUE, d |-> d]
    ELSE IF api = "listErr" THEN [err |-> TRUE, d |-> d]
    ELSE LET r == Replay(NewNodeInfo(name), d.PodMaps, cluster,
                         AssumedPodsOn(cluster, name))
         IN  [err |-> FALSE,
              d |-> [d EXCEPT !.NodeMaps = MapPut(@, name, r.ni),
                              !.PodMaps = r.PodMaps]]

\* Allocate without the PodMaps check of line 215: a known pod's plan is
\* committed again.
Allocate_Unchecked(d, cluster, pod, api) ==
    IF pod.NodeName = NoNode THEN [err |-> TRUE, d |-> d]
    ELSE LET g == getNodeInfo(d, cluster, pod.NodeName, api)
             p == NewPlanFromPod(pod)
         IN  IF g.err \/ p.err THEN [err |-> TRUE, d |-> g.d]
             ELSE LET a == NodeAllocate(g.d.NodeMaps[pod.NodeName], p.plan)
                  IN  IF a.err THEN [err |-> TRUE, d |-> g.d]
                      ELSE [err |-> FALSE,
                            d |-> [g.d EXCEPT
                                     !.NodeMaps[pod.NodeName] = a.ni,
                                     !.PodMaps = MapPut(@, pod.UID, pod)]]

\* DealerImpl.Allocate.
Allocate(d, cluster, pod, api) ==
    IF pod.NodeName = NoNode THEN [err |-> TRUE, d |-> d]
    ELSE LET g == getNodeInfo(d, cluster, pod.NodeName, api)
         IN  IF g.err THEN [err |-> TRUE, d |-> g.d]
             ELSE IF pod.UID \in DOMAIN g.d.PodMaps THEN [err |-> FALSE, d |-> g.d]
             ELSE LET p == NewPlanFromPod(pod)
                  IN  IF p.err THEN [err |-> TRUE, d |-> g.d]
                      ELSE LET a == NodeAllocate(g.d.NodeMaps[pod.NodeName], p.plan)
                           IN  IF a.err THEN [err |-> TRUE, d |-> g.d]
                               ELSE [err |-> FALSE,
                                     d |-> [g.d EXCEPT
                                              !.NodeMaps[pod.NodeName] = a.ni,
                                              !.PodMaps = MapPut(@, pod.UID, pod)]]

\* Release that reports a UID absent from PodMaps as an error.
Release_AbsentIsError(d, cluster, pod, api) ==
    LET g == getNodeInfo(d, cluster, pod.NodeName, api)
    IN  IF g.err \/ pod.UID \notin DOMAIN g.d.PodMaps THEN [err |-> TRUE, d |-> g.d]
        ELSE LET r == NodeRelease(g.d.NodeMaps[pod.NodeName], NewPlanFromPod(pod).plan)
             IN  [err |-> FALSE,
                  d |-> [g.d EXCEPT
                           !.NodeMaps[pod.NodeName] = r.ni,
                           !.PodMaps = MapDelete(@, pod.UID),
                           !.ReleasedPodMap = @ \cup {pod.UID}]]

\* Release that subtracts the plan and drops the UID but leaves no
\* tombstone in ReleasedPodMap.
Release_NoTombstone(d, cluster, pod, api) ==
    LET g == getNodeInfo(d, cluster, pod.NodeName, api)
    IN  IF g.err THEN [err |-> TRUE, d |-> g.d]
        ELSE IF pod.UID \notin DOMAIN g.d.PodMaps THEN [err |-> FALSE, d |-> g.d]
        ELSE LET r == NodeRelease(g.d.NodeMaps[pod.NodeName], NewPlanFromPod(pod).plan)
             IN  [err |-> FALSE,
                  d |-> [g.d EXCEPT
                           !.NodeMaps[pod.NodeName] = r.ni,
                           !.PodMaps = MapDelete(@, pod.UID)]]

\* Release that moves the UID but leaves the node's counters alone.
Release_NoSubtract(d, cluster, pod, api) ==
    LET g == getNodeInfo(d, cluster, pod.NodeName, api)
    IN  IF g.err THEN [err |-> TRUE, d |-> g.d]
        ELSE IF pod.UID \notin DOMAIN g.d.PodMaps THEN [err |-> FALSE, d |-> g.d]
        ELSE [err |-> FALSE,
              d |-> [g.d EXCEPT !.PodMaps = MapDelete(@, pod.UID),
                                !.ReleasedPodMap = @ \cup {pod.UID}]]

\* Release without the PodMaps check of line 239: any pod's plan is
\* subtracted.
Release_Unchecked(d, cluster, pod, api) ==
    LET g == getNodeInfo(d, cluster, pod.NodeName, api)
        p == NewPlanFromPod(pod)
    IN  IF g.err \/ p.err THEN [err |-> TRUE, d |-> g.d]
        ELSE LET r == NodeRelease(g.d.NodeMaps[pod.NodeName], p.plan)
             IN  IF r.err THEN [err |-> TRUE, d |-> g.d]
                 ELSE [err |-> FALSE,
                       d |-> [g.d EXCEPT
                                !.NodeMaps[pod.NodeName] = r.ni,
                                !.PodMaps = MapDelete(@, pod.UID),
                                !.ReleasedPodMap = @ \cup {pod.UID}]]

\* DealerImpl.Release.
Release(d, cluster, pod, api) ==
    LET g == getNodeInfo(d, cluster, pod.NodeName, api)
    IN  IF g.err THEN [err |-> TRUE, d |-> g.d]
        ELSE IF pod.UID \notin DOMAIN g.d.PodMaps THEN [err |-> FALSE, d |-> g.d]
        ELSE LET p == NewPlanFromPod(pod)
             IN  IF p.err THEN [err |-> TRUE, d |-> g.d]
                 ELSE LET r == NodeRelease(g.d.NodeMaps[pod.NodeName], p.plan)
                      IN  IF r.err THEN [err |-> TRUE, d |-> g.d]
                          ELSE [err |-> FALSE,
                                d |-> [g.d EXCEPT
                                         !.NodeMaps[pod.NodeName] = r.ni,
                                         !.PodMaps = MapDelete(@, pod.UID),
                                         !.ReleasedPodMap = @ \cup {pod.UID}]]

\* Forget that clears the tombstone only.
Forget_OnlyReleased(d, pod) ==
    [err |-> FALSE, d |-> [d EXCEPT !.ReleasedPodMap = @ \ {pod.UID}]]

\* DealerImpl.Forget.
Forget(d, pod) ==
    [err |-> FALSE,
     d |-> [d EXCEPT !.ReleasedPodMap = @ \ {pod.UID},
                     !.PodMaps = MapDelete(@, pod.UID)]]

\* DealerImpl.KnownPod and DealerImpl.PodReleased.
KnownPod(d, pod) == pod.UID \in DOMAIN d.PodMaps
PodReleased(d, pod) == pod.UID \in d.ReleasedPodMap

\* The first loop of DealerImpl.Assume: resolve every candidate in input
\* order; resolved[i] tells whether nodeInfos[i] is non-nil.
RECURSIVE ResolveAll(_, _, _, _, _, _)
ResolveAll(d, cluster, nodes, apis, i, resolved) ==
    IF i > Len(nodes) THEN [d |-> d, resolved |-> resolved]
    ELSE LET g == getNodeInfo(d, cluster, nodes[i], apis[i])
         IN  ResolveAll(g.d, cluster, nodes, apis, i + 1, Append(resolved, ~g.err))

\* The body the workers of DealerImpl.Assume run for each queued index:
\* skip an unresolved node, else cleanPlan and NodeInfo.Assume, and write
\* the result to ans[number] and res[number] (TRUE: a non-nil error).
RECURSIVE Work(_, _, _, _, _, _, _, _)
Work(nm, nodes, resolved, demand, pol, i, ans, res) ==
    IF i > Len(nodes) THEN [NodeMaps |-> nm, ans |-> ans, res |-> res]
    ELSE IF ~resolved[i]
         THEN Work(nm, nodes, resolved, demand, pol, i + 1,
                   Append(ans, FALSE), Append(res, TRUE))
         ELSE LET a == NodeAssume(cleanPlan(nm[nodes[i]]), demand, pol)
              IN  Work([nm EXCEPT ![nodes[i]] = a.ni], nodes, resolved, demand, pol,
                       i + 1, Append(ans, a.ok), Append(res, ~a.ok))

\* Assume that gives up at the first candidate it cannot resolve: the
\* vectors go back as allocated, with the failing cell alone filled in.
Assume_AbortOnError(d, cluster, nodes, pod, pol, apis) ==
    LET r == ResolveAll(d, cluster, nodes, apis, 1, << >>)
        w == Work(r.d.NodeMaps, nodes, r.resolved, NewDemandFromPod(pod.UID),
                  pol, 1, << >>, << >>)
    IN  IF \E i \in 1..Len(nodes) : ~r.resolved[i]
        THEN [ans |-> [i \in 1..Len(nodes) |-> FALSE],
              res |-> [i \in 1..Len(nodes) |-> ~r.resolved[i]],
              d |-> r.d]
        ELSE [ans |-> w.ans, res |-> w.res, d |-> [r.d EXCEPT !.NodeMaps = w.NodeMaps]]

\* DealerImpl.Assume.
Assume(d, cluster, nodes, pod, pol, apis) ==
    LET r == ResolveAll(d, cluster, nodes, apis, 1, << >>)
        w == Work(r.d.NodeMaps, nodes, r.resolved, NewDemandFromPod(pod.UID),
                  pol, 1, << >>, << >>)
    IN  [ans |-> w.ans, res |-> w.res, d |-> [r.d EXCEPT !.NodeMaps = w.NodeMaps]]

\* The loop of DealerImpl.Score: node by node, ScoreMin for a node that
\* cannot be resolved, NodeInfo.Score for the others.
RECURSIVE ScoreLoop(_, _, _, _, _, _, _, _)
ScoreLoop(d, cluster, nodes, demand, pol, apis, i, scores) ==
    IF i > Len(nodes) THEN [scores |-> scores, d |-> d]
    ELSE LET g == getNodeInfo(d, cluster, nodes[i], apis[i])
         IN  IF g.err
             THEN ScoreLoop(g.d, cluster, nodes, demand, pol, apis, i + 1,
                            Append(scores, ScoreMin))
             ELSE ScoreLoop(g.d, cluster, nodes, demand, pol, apis, i + 1,
                            Append(scores, NodeScore(g.d.NodeMaps[nodes[i]], demand, pol)))

\* Score that gives up at the first candidate it cannot resolve: the
\* scores go back as allocated.
Score_AbortOnError(d, cluster, nodes, pod, pol, apis) ==
    LET r == ResolveAll(d, cluster, nodes, apis, 1, << >>)
    IN  IF \E i \in 1..Len(nodes) : ~r.resolved[i]
        THEN [scores |-> [i \in 1..Len(nodes) |-> 0], d |-> r.d]
        ELSE ScoreLoop(d, cluster, nodes, NewDemandFromPod(pod.UID), pol, apis, 1, << >>)

\* DealerImpl.Score.
Score(d, cluster, nodes, pod, pol, apis) ==
    ScoreLoop(d, cluster, nodes, NewDemandFromPod(pod.UID), pol, apis, 1, << >>)

\* The Func of NewNanoGPUPrioritize: the host priority list built from the
\* scores, host i with score i.
Prioritize(nodeNames, scores) ==
    [i \in 1..Len(scores) |-> [Host |-> nodeNames[i], Score |-> scores[i]]]

\* Predicate.Handler: the filter response built from the vectors of Assume.
\* Candidates pass in input order; a rejected one is entered in
\* FailedNodes under its name with res[i].Error(), which panics on a nil
\* error.
RECURSIVE canSchedule(_, _, _)
canSchedule(nodeNames, can, i) ==
    IF i > Len(can) THEN << >>
    ELSE (IF can[i] THEN << nodeNames[i] >> ELSE << >>)
            \o canSchedule(nodeNames, can, i + 1)

Handler(nodeNames, can, res) ==
    LET rejected == {i \in 1..Len(can) : ~can[i]}
    IN  [NodeNames |-> canSchedule(nodeNames, can, 1),
         FailedNodes |-> {nodeNames[i] : i \in rejected},
         panic |-> \E i \in rejected : ~res[i]]

\* What the cluster API answers during one Bind, call by call.  An answer
\* to a call Bind does not reach is fixed to its first value.
UpdateOutcomes == {"ok", "conflict", "fail"}
BindIOs ==
    {io \in [resolve : APIOutcomes, nodeGet : BOOLEAN, upd1 : UpdateOutcomes,
             get : BOOLEAN, upd2 : UpdateOutcomes, bind : BOOLEAN] :
        LET rNode == io.resolve = "ok"
            rUpd1 == rNode /\ io.nodeGet
            rGet  == rUpd1 /\ io.upd1 = "conflict"
            rUpd2 == rGet /\ io.get
            rBind == rUpd1 /\ (io.upd1 = "ok" \/ (rUpd2 /\ io.upd2 = "ok"))
        IN  /\ (~rNode => io.nodeGet)
            /\ (~rUpd1 => io.upd1 = "ok")
            /\ (~rGet => io.get)
            /\ (~rUpd2 => io.upd2 = "ok")
            /\ (~rBind => io.bind)}

\* utils.GetUpdatedPodAnnotationSpec: a copy of the pod with the plan's GPU
\* indices in its annotations (and the GPUAssume label).
GetUpdatedPodAnnotationSpec(pod, indexes) == [pod EXCEPT !.GPUIndexes = indexes]

\* The pod object of the cluster after a successful Update of newPod.
Updated(cluster, newPod) == [cluster EXCEPT ![newPod.UID].GPUIndexes = newPod.GPUIndexes]

\* What a Bind returns: err, the dealer and the cluster afterwards, and the
\* trace of its API calls (updates and gets made, whether an update
\* succeeded, whether the Binding was issued and succeeded, the plan).
BindResult(err, d, cluster, updates, gets, updOK, issued, bound, plan) ==
    [err |-> err, d |-> d, cluster |-> cluster, updates |-> updates, gets |-> gets,
     updOK |-> updOK, issued |-> issued, bound |-> bound, plan |-> plan]

\* The tail of Bind recording the pod before the Binding is known to have
\* succeeded.
BindTail_RecordFirst(d, cluster, node, pod, newPod, io, updates, gets, plan) ==
    IF ~io.bind
    THEN BindResult(TRUE, [d EXCEPT !.PodMaps = MapPut(@, pod.UID, newPod)],
                    cluster, updates, gets, TRUE, TRUE, FALSE, plan)
    ELSE BindResult(FALSE, [d EXCEPT !.PodMaps = MapPut(@, pod.UID, newPod)],
                    [cluster EXCEPT ![newPod.UID].NodeName = node],
                    updates, gets, TRUE, TRUE, TRUE, plan)

\* Lines 191-202 of DealerImpl.Bind: issue the Binding, then record the pod.
BindTail(d, cluster, node, pod, newPod, io, updates, gets, plan) ==
    IF ~io.bind
    THEN BindResult(TRUE, d, cluster, updates, gets, TRUE, TRUE, FALSE, plan)
    ELSE BindResult(FALSE, [d EXCEPT !.PodMaps = MapPut(@, pod.UID, newPod)],
                    [cluster EXCEPT ![newPod.UID].NodeName = node],
                    updates, gets, TRUE, TRUE, TRUE, plan)

\* The update of Bind without the retry branch: a conflict is returned
\* like any other error.
BindUpdate_NoRetry(d, cluster, node, pod, plan, io) ==
    LET newPod == GetUpdatedPodAnnotationSpec(pod, plan.GPUIndexes)
    IN  IF io.upd1 = "ok"
        THEN BindTail(d, Updated(cluster, newPod), node, pod, newPod, io, 1, 0, plan)
        ELSE BindResult(TRUE, d, cluster, 1, 0, FALSE, FALSE, FALSE, plan)

\* Lines 176-190 of DealerImpl.Bind: write the plan to the pod, with the
\* retry on an optimistic-lock conflict.
BindUpdate(d, cluster, node, pod, plan, io) ==
    LET newPod == GetUpdatedPodAnnotationSpec(pod, plan.GPUIndexes)
    IN  CASE io.upd1 = "ok" ->
               BindTail(d, Updated(cluster, newPod), node, pod, newPod, io, 1, 0, plan)
          [] io.upd1 = "conflict" ->
               IF ~io.get
               THEN BindResult(TRUE, d, cluster, 1, 1, FALSE, FALSE, FALSE, plan)
               ELSE LET fresh == PodObject(cluster, pod.UID)
                        newPod2 == GetUpdatedPodAnnotationSpec(fresh, plan.GPUIndexes)
                    IN  IF io.upd2 # "ok"
                        THEN BindResult(TRUE, d, cluster, 2, 1, FALSE, FALSE, FALSE, plan)
                        ELSE BindTail(d, Updated(cluster, newPod2), node, fresh,
                                      newPod2, io, 2, 1, plan)
          [] OTHER ->
               BindResult(FALSE, d, cluster, 1, 0, FALSE, FALSE, FALSE, plan)

\* DealerImpl.Bind.
Bind(d, cluster, node, pod, io) ==
    LET g == getNodeInfo(d, cluster, node, io.resolve)
    IN  IF g.err
        THEN BindResult(TRUE, g.d, cluster, 0, 0, FALSE, FALSE, FALSE, NoPlan)
        ELSE IF ~io.nodeGet
        THEN BindResult(TRUE, g.d, cluster, 0, 0, FALSE, FALSE, FALSE, NoPlan)
        ELSE LET b == NodeBind(g.d.NodeMaps[node], NewDemandFromPod(pod.UID))
             IN  IF b.err
                 THEN BindResult(TRUE, g.d, cluster, 0, 0, FALSE, FALSE, FALSE, NoPlan)
                 ELSE BindUpdate([g.d EXCEPT !.NodeMaps[node] = b.ni],
                                 cluster, node, pod, b.plan, io)

(***************************************************************************)
(* The state machine.                                                      *)
(***************************************************************************)
\* The states a pod object can be in when the process starts: pending, or
\* bound to a node with a plan over that node's GPUs.
PodStates(uid) ==
    {[NodeName |-> NoNode, GPUIndexes |-> << >>]} \cup
    UNION {{[NodeName |-> n, GPUIndexes |-> p] :
               p \in [1..Len(NewDemandFromPod(uid)) -> GPUIds(n)]} : n \in Nodes}

\* The clusters the process can start in: the bound pods' plans fit their
\* nodes together.
InitClusters ==
    {c \in [UIDs -> UNION {PodStates(u) : u \in UIDs}] :
        /\ \A u \in UIDs : c[u] \in PodStates(u)
        /\ \A n \in Nodes :
              DOMAIN Replay(NewNodeInfo(n), EmptyMap, c, AssumedPodsOn(c, n)).PodMaps
                 = AssumedPodsOn(c, n)}

\* The loop of NewDealer over the GPU-assumed pods: seed the node of every
\* pod that has one; a node that cannot be resolved is logged and skipped.
RECURSIVE NewDealerLoop(_, _, _, _)
NewDealerLoop(d, cluster, todo, apis) ==
    IF todo = {} THEN d
    ELSE LET u == CHOOSE x \in todo : \A y \in todo : x <= y
         IN  IF cluster[u].NodeName = NoNode
             THEN NewDealerLoop(d, cluster, todo \ {u}, apis)
             ELSE NewDealerLoop(
                    getNodeInfo(d, cluster, cluster[u].NodeName,
                                apis[cluster[u].NodeName]).d,
                    cluster, todo \ {u}, apis)

NewDealer(cluster, apis) ==
    NewDealerLoop(Dealer(EmptyMap, EmptyMap, {}), cluster,
                  {u \in UIDs : cluster[u].GPUIndexes # << >>}, apis)

\* The goroutines that may call the dealer at once, and the workers one
\* Assume starts.
Callers == 1..NumCallers
NumWorkers == 4

\* A caller outside the dealer.
IdleCall ==
    [pc |-> "idle", op |-> "", pod |-> [UID |-> 0, NodeName |-> NoNode,
                                        GPUIndexes |-> << >>],
     nodes |-> << >>, i |-> 0, resolved |-> << >>, list |-> << >>,
     seeded |-> {}, err |-> FALSE,
     ch |-> << >>, ans |-> << >>, res |-> << >>, taken |-> << >>,
     evals |-> << >>, workers |-> << >>]

\* No method is running.
Quiet ==
    /\ Lock = 0
    /\ call = [c \in Callers |-> IdleCall]
    /\ reader = "idle"
    /\ ncalls = 0

\* The record of a call that has not happened.
NoCall ==
    [op |-> "NewDealer", uid |-> 0, nodes |-> << >>, err |-> FALSE,
     known |-> FALSE, released |-> FALSE, cached |-> FALSE, resolved |-> FALSE,
     fresh |-> FALSE, snap |-> << >>, ans |-> << >>, res |-> << >>,
     scores |-> << >>, failed |-> {},
     conflict |-> FALSE, getOK |-> FALSE, retryOK |-> FALSE,
     updates |-> 0, gets |-> 0, updOK |-> FALSE, issued |-> FALSE,
     bound |-> FALSE, plan |-> NoPlan]

\* The record of a call on a pod: what the dealer held on entry.  (The
\* call fills in what it returned, the trace of its API calls and, in
\* failed, the names getNodeInfo asked the cluster about in vain.)
Entry(op, uid, nodes) ==
    [NoCall EXCEPT !.op = op, !.uid = uid, !.nodes = nodes,
                   !.known = uid \in DOMAIN PodMaps,
                   !.released = uid \in ReleasedPodMap,
                   !.cached = \A i \in 1..Len(nodes) : nodes[i] \in DOMAIN NodeMaps]

Current == Dealer(NodeMaps, PodMaps, ReleasedPodMap)

Install(d) ==
    /\ NodeMaps' = d.NodeMaps
    /\ PodMaps' = d.PodMaps
    /\ ReleasedPodMap' = d.ReleasedPodMap

Init ==
    \E cluster \in InitClusters, apis \in [Nodes -> {"ok", "nodeErr"}] :
        LET d == NewDealer(cluster, apis)
        IN  /\ NodeMaps = d.NodeMaps
            /\ PodMaps = d.PodMaps
            /\ ReleasedPodMap = d.ReleasedPodMap
            /\ pods = cluster
            /\ last = NoCall
            /\ seeds = [n \in Nodes |-> 0]
            /\ Quiet

\* getNodeInfo asks the cluster nothing about a node it has cached, and
\* the node lister has no node of the empty name: the answer to a question
\* not asked is fixed to "ok".
Unasked(name) == name \in DOMAIN NodeMaps \/ name = NoNode

\* The candidate lists of a filter request: distinct node names.
CandidateLists ==
    {l \in UNION {[1..k -> Nodes] : k \in 0..MaxCandidates} :
        \A i, j \in 1..Len(l) : i # j => l[i] # l[j]}

\* The scheduler filters a pending pod over a list of candidate nodes.
\* (The load-aware rating changes scores only and is left out.)
CallAssume(nodes, uid) ==
    /\ pods[uid].NodeName = NoNode
    /\ \E apis \in [1..Len(nodes) -> APIOutcomes] :
         /\ \A i \in 1..Len(nodes) : Unasked(nodes[i]) => apis[i] = "ok"
         /\ LET r == Assume(Current, pods, nodes, PodObject(pods, uid), Priority, apis)
            IN  /\ Install(r.d)
                /\ last' = [Entry("Assume", uid, nodes) EXCEPT
                              !.ans = r.ans, !.res = r.res,
                              !.failed = {nodes[i] : i \in {k \in 1..Len(nodes) :
                                                              apis[k] # "ok"}}]
    /\ UNCHANGED pods

\* The scheduler ranks the candidate nodes of a pending pod.
CallScore(nodes, uid) ==
    /\ pods[uid].NodeName = NoNode
    /\ \E apis \in [1..Len(nodes) -> APIOutcomes] :
         /\ \A i \in 1..Len(nodes) : Unasked(nodes[i]) => apis[i] = "ok"
         /\ LET r == Score(Current, pods, nodes, PodObject(pods, uid), Priority, apis)
            IN  /\ Install(r.d)
                /\ last' = [Entry("Score", uid, nodes) EXCEPT
                              !.scores = r.scores,
                              !.failed = {nodes[i] : i \in {k \in 1..Len(nodes) :
                                                              apis[k] # "ok"}}]
    /\ UNCHANGED pods

\* The scheduler binds a pending pod to a node.
CallBind(node, uid) ==
    /\ pods[uid].NodeName = NoNode
    /\ \E io \in BindIOs :
         /\ Unasked(node) => io.resolve = "ok"
         /\ LET r == Bind(Current, pods, node, PodObject(pods, uid), io)
            IN  /\ Install(r.d)
                /\ pods' = r.cluster
                /\ last' = [Entry("Bind", uid, << node >>) EXCEPT
                              !.err = r.err,
                              !.conflict = r.updates >= 1 /\ io.upd1 = "conflict",
                              !.getOK = /\ r.updates >= 1 /\ io.upd1 = "conflict"
                                        /\ io.get,
                              !.retryOK = /\ r.updates >= 1 /\ io.upd1 = "conflict"
                                          /\ io.get /\ io.upd2 = "ok",
                              !.updates = r.updates,
                              !.gets = r.gets, !.updOK = r.updOK,
                              !.issued = r.issued, !.bound = r.bound,
                              !.plan = r.plan,
                              !.resolved = node \in DOMAIN r.d.NodeMaps,
                              !.failed = IF io.resolve # "ok" THEN {node} ELSE {}]

\* The pod informer reports a pod: its current object is allocated.
CallAllocate(uid) ==
    /\ \E api \in APIOutcomes :
         /\ Unasked(pods[uid].NodeName) => api = "ok"
         /\ LET pod == PodObject(pods, uid)
                r == Allocate(Current, pods, pod, api)
                e == Entry("Allocate", uid, << pod.NodeName >>)
                fresh == e.cached /\ ~e.known /\ ~r.err
            IN  /\ Install(r.d)
                /\ last' = [e EXCEPT
                              !.err = r.err,
                              !.resolved = pod.NodeName \in DOMAIN r.d.NodeMaps,
                              !.fresh = fresh,
                              !.snap = IF fresh THEN NodeMaps[pod.NodeName].GPUs
                                       ELSE << >>,
                              !.failed = IF pod.NodeName # NoNode /\ api # "ok"
                                         THEN {pod.NodeName} ELSE {}]
    /\ UNCHANGED pods

\* The pod informer reports a terminating pod: it is released.
CallRelease(uid) ==
    /\ \E api \in APIOutcomes :
         /\ Unasked(pods[uid].NodeName) => api = "ok"
         /\ LET pod == PodObject(pods, uid)
                r == Release(Current, pods, pod, api)
                after == last.op = "Allocate" /\ last.uid = uid /\ last.fresh
            IN  /\ Install(r.d)
                /\ last' = [Entry("Release", uid, << pod.NodeName >>) EXCEPT
                              !.err = r.err,
                              !.resolved = pod.NodeName \in DOMAIN r.d.NodeMaps,
                              !.fresh = after,
                              !.snap = IF after THEN last.snap ELSE << >>,
                              !.failed = IF pod.NodeName = NoNode \/ api # "ok"
                                         THEN {pod.NodeName} ELSE {}]
    /\ UNCHANGED pods

\* The pod informer reports a pod gone: it is forgotten.
CallForget(uid) ==
    /\ LET r == Forget(Current, PodObject(pods, uid))
       IN  /\ Install(r.d)
           /\ last' = [Entry("Forget", uid, << >>) EXCEPT !.err = r.err]
    /\ UNCHANGED pods

\* One method call after the other, each from entry to return.  (seeds
\* and ncalls are kept by ConcurrentSpec only.)
Next ==
    \/ \E nodes \in CandidateLists, uid \in UIDs :
          CallAssume(nodes, uid) /\ UNCHANGED cvars
    \/ \E nodes \in CandidateLists, uid \in UIDs :
          CallScore(nodes, uid) /\ UNCHANGED cvars
    \/ \E node \in Nodes, uid \in UIDs : CallBind(node, uid) /\ UNCHANGED cvars
    \/ \E uid \in UIDs : CallAllocate(uid) /\ UNCHANGED cvars
    \/ \E uid \in UIDs : CallRelease(uid) /\ UNCHANGED cvars
    \/ \E uid \in UIDs : CallForget(uid) /\ UNCHANGED cvars

Spec == Init /\ [][Next]_vars

(***************************************************************************)
(* The methods taken apart: callers, the mutex, getNodeInfo in two         *)
(* halves, the workers of Assume, and the readers that take no lock.       *)
(***************************************************************************)
dvars == << NodeMaps, PodMaps, ReleasedPodMap >>

Ops == {"Assume", "Score", "Bind", "Allocate", "Release", "Forget"}

\* The candidate lists a filter request can carry: any node names.
FilterLists == UNION {[1..k -> Nodes] : k \in 0..MaxCandidates}

\* The node names a method hands to getNodeInfo, in order: the candidates
\* of Assume and Score, the node of Bind, the pod's node for Allocate
\* (which returns before getNodeInfo when the name is empty) and Release.
Refs(op, pod, nodes) ==
    CASE op \in {"Assume", "Score", "Bind"} -> nodes
      [] op = "Allocate" -> IF pod.NodeName = NoNode THEN << >> ELSE << pod.NodeName >>
      [] op = "Release" -> << pod.NodeName >>
      [] OTHER -> << >>

\* A lock that does not wait for its holder.
LockLock_NoWait(c) == Lock' = c

\* d.Lock.Lock(): blocks while the mutex is held.
LockLock(c) == Lock = 0 /\ Lock' = c

\* A caller invokes a method of the dealer and arrives at d.Lock.Lock().
CallStart(c, max) ==
    /\ call[c].pc = "idle" /\ ncalls < max
    /\ call' = [call EXCEPT ![c].pc = "lock"]
    /\ ncalls' = ncalls + 1
    /\ UNCHANGED << dvars, pods, last, Lock, reader, seeds >>

\* The method takes the mutex and starts on its body.  (Which method it is
\* and with what arguments shows only now: nothing reads them before.)
Enter(c, op, uid, nodes) ==
    /\ call[c].pc = "lock"
    /\ LockLock(c)
    /\ LET pod == PodObject(pods, uid)
       IN  /\ op \in {"Assume", "Score", "Bind"} => pod.NodeName = NoNode
           /\ op = "Bind" => Len(nodes) = 1
           /\ op \in {"Allocate", "Release", "Forget"} => nodes = << >>
           /\ call' = [call EXCEPT ![c] =
                         [IdleCall EXCEPT !.pc = "resolve", !.op = op, !.pod = pod,
                                          !.nodes = Refs(op, pod, nodes), !.i = 1]]
    /\ UNCHANGED << dvars, pods, last, reader, seeds, ncalls >>

\* What a method does with the answer to the lookups of getNodeInfo for a
\* name it does not hold: go on to the seeding, or take the error (Assume
\* and Score in the node's cell, the other methods as their result).
Missed(k, api) ==
    IF api = "ok" THEN [k EXCEPT !.pc = "seed", !.list = pods]
    ELSE IF k.op \in {"Assume", "Score"}
         THEN [k EXCEPT !.resolved = Append(@, FALSE), !.i = @ + 1]
         ELSE [k EXCEPT !.pc = "return", !.err = TRUE]

\* getNodeInfo without the test of line 272: a name already held is looked
\* up and seeded again.
Lookup_NoCacheCheck(c) ==
    LET k == call[c]
        name == k.nodes[k.i]
    IN  /\ k.pc = "resolve" /\ k.i <= Len(k.nodes)
        /\ \E api \in APIOutcomes :
              /\ name = NoNode => api = "nodeErr"
              /\ call' = [call EXCEPT ![c] = Missed(k, api)]
        /\ UNCHANGED << dvars, pods, last, Lock, reader, seeds, ncalls >>

\* Lines 272-285 of getNodeInfo, for the next name of the method: the
\* cached NodeInfo, or the node lookup and the pod list.
Lookup(c) ==
    LET k == call[c]
        name == k.nodes[k.i]
    IN  /\ k.pc = "resolve" /\ k.i <= Len(k.nodes)
        /\ \/ /\ name \in DOMAIN NodeMaps
              /\ call' = [call EXCEPT ![c].resolved = Append(@, TRUE),
                                      ![c].i = @ + 1]
           \/ /\ name \notin DOMAIN NodeMaps
              /\ \E api \in APIOutcomes :
                    /\ name = NoNode => api = "nodeErr"
                    /\ call' = [call EXCEPT ![c] = Missed(k, api)]
        /\ UNCHANGED << dvars, pods, last, Lock, reader, seeds, ncalls >>

\* Lines 286-300 of getNodeInfo: enter a new NodeInfo under the name and
\* replay the listed pods on it.
Seed(c) ==
    LET k == call[c]
        name == k.nodes[k.i]
        r == Replay(NewNodeInfo(name), PodMaps, k.list, AssumedPodsOn(k.list, name))
    IN  /\ k.pc = "seed"
        /\ NodeMaps' = MapPut(NodeMaps, name, r.ni)
        /\ PodMaps' = r.PodMaps
        /\ seeds' = [seeds EXCEPT ![name] = @ + 1]
        /\ call' = [call EXCEPT ![c] =
                      [k EXCEPT !.pc = "resolve", !.list = << >>,
                                !.resolved = Append(@, TRUE), !.i = @ + 1,
                                !.seeded = @ \cup {name}]]
        /\ UNCHANGED << ReleasedPodMap, pods, last, Lock, reader, ncalls >>

\* The rest of Score, Bind, Allocate, Release or Forget once getNodeInfo
\* has answered.
Body(c) ==
    LET k == call[c]
        done(err) == [call EXCEPT ![c].pc = "return", ![c].err = err]
    IN  /\ k.pc = "resolve" /\ k.i > Len(k.nodes)
        /\ \/ /\ k.op = "Score"
              /\ LET r == Score(Current, pods, k.nodes, k.pod, Priority,
                                [i \in 1..Len(k.nodes) |->
                                    IF k.resolved[i] THEN "ok" ELSE "nodeErr"])
                 IN  Install(r.d) /\ call' = done(FALSE)
              /\ UNCHANGED pods
           \/ /\ k.op = "Bind"
              /\ \E io \in BindIOs :
                    /\ io.resolve = "ok"
                    /\ LET r == Bind(Current, pods, k.nodes[1], k.pod, io)
                       IN  Install(r.d) /\ pods' = r.cluster /\ call' = done(r.err)
           \/ /\ k.op = "Allocate"
              /\ LET r == Allocate(Current, pods, k.pod, "ok")
                 IN  Install(r.d) /\ call' = done(r.err)
              /\ UNCHANGED pods
           \/ /\ k.op = "Release"
              /\ LET r == Release(Current, pods, k.pod, "ok")
                 IN  Install(r.d) /\ call' = done(r.err)
              /\ UNCHANGED pods
           \/ /\ k.op = "Forget"
              /\ LET r == Forget(Current, k.pod)
                 IN  Install(r.d) /\ call' = done(r.err)
              /\ UNCHANGED pods
        /\ UNCHANGED << last, Lock, reader, seeds, ncalls >>

\* Lines 107-115 of Assume: every index is queued, then the workers start.
Spawn(c) ==
    LET k == call[c]
        n == Len(k.nodes)
    IN  /\ k.pc = "resolve" /\ k.i > n /\ k.op = "Assume"
        /\ call' = [call EXCEPT ![c] =
                      [k EXCEPT !.pc = "wait",
                                !.ch = [i \in 1..n |-> i],
                                !.ans = [i \in 1..n |-> FALSE],
                                !.res = [i \in 1..n |-> ~k.resolved[i]],
                                !.taken = [i \in 1..n |-> 0],
                                !.evals = [i \in 1..n |-> 0],
                                !.workers = [w \in 1..NumWorkers |->
                                                [pc |-> "select", number |-> 0]]]]
        /\ UNCHANGED << dvars, pods, last, Lock, reader, seeds, ncalls >>

\* case number := <-ch: the worker takes the next index; an index without
\* NodeInfo is dropped.
Receive(c, w) ==
    LET k == call[c]
        number == Head(k.ch)
    IN  /\ k.pc = "wait" /\ k.workers[w].pc = "select" /\ k.ch # << >>
        /\ call' = [call EXCEPT ![c] =
                      [k EXCEPT !.ch = Tail(@),
                                !.taken[number] = @ + 1,
                                !.workers[w] = IF k.resolved[number]
                                               THEN [pc |-> "clean", number |-> number]
                                               ELSE @]]
        /\ UNCHANGED << dvars, pods, last, Lock, reader, seeds, ncalls >>

\* default: the worker finds the queue empty and returns.
Default(c, w) ==
    LET k == call[c]
    IN  /\ k.pc = "wait" /\ k.workers[w].pc = "select" /\ k.ch = << >>
        /\ call' = [call EXCEPT ![c].workers[w].pc = "done"]
        /\ UNCHANGED << dvars, pods, last, Lock, reader, seeds, ncalls >>

\* nodeInfos[number].cleanPlan().
CleanPlan(c, w) ==
    LET k == call[c]
        name == k.nodes[k.workers[w].number]
    IN  /\ k.pc = "wait" /\ k.workers[w].pc = "clean"
        /\ NodeMaps' = [NodeMaps EXCEPT ![name] = cleanPlan(@)]
        /\ call' = [call EXCEPT ![c].workers[w].pc = "assume"]
        /\ UNCHANGED << PodMaps, ReleasedPodMap, pods, last, Lock, reader, seeds,
                        ncalls >>

\* nodeInfos[number].Assume(...) and the two writes of its result.
NodeInfoAssume(c, w) ==
    LET k == call[c]
        number == k.workers[w].number
        name == k.nodes[number]
        a == NodeAssume(NodeMaps[name], NewDemandFromPod(k.pod.UID), Priority)
    IN  /\ k.pc = "wait" /\ k.workers[w].pc = "assume"
        /\ NodeMaps' = [NodeMaps EXCEPT ![name] = a.ni]
        /\ call' = [call EXCEPT ![c] =
                      [k EXCEPT !.ans[number] = a.ok,
                                !.res[number] = ~a.ok,
                                !.evals[number] = @ + 1,
                                !.workers[w] = [pc |-> "select", number |-> 0]]]
        /\ UNCHANGED << PodMaps, ReleasedPodMap, pods, last, Lock, reader, seeds,
                        ncalls >>

\* Assume returning without the wg.Wait().
Join_NoWait(c) ==
    /\ call[c].pc = "wait"
    /\ call' = [call EXCEPT ![c].pc = "return"]
    /\ UNCHANGED << dvars, pods, last, Lock, reader, seeds, ncalls >>

\* wg.Wait(): Assume goes on when every worker has returned.
Join(c) ==
    /\ call[c].pc = "wait"
    /\ \A w \in 1..NumWorkers : call[c].workers[w].pc = "done"
    /\ call' = [call EXCEPT ![c].pc = "return"]
    /\ UNCHANGED << dvars, pods, last, Lock, reader, seeds, ncalls >>

\* The method returns: the deferred d.Lock.Unlock() runs.
Unlock(c) ==
    /\ call[c].pc = "return"
    /\ Lock' = 0
    /\ call' = [call EXCEPT ![c] = IdleCall]
    /\ UNCHANGED << dvars, pods, last, reader, seeds, ncalls >>

\* Status returns d.NodeMaps itself, and its caller starts reading the map;
\* PrintStatus ranges over d.NodeMaps.  Neither takes the mutex.
Status ==
    /\ reader = "idle" /\ reader' = "status"
    /\ UNCHANGED << dvars, pods, last, Lock, call, seeds, ncalls >>

PrintStatus ==
    /\ reader = "idle" /\ reader' = "print"
    /\ UNCHANGED << dvars, pods, last, Lock, call, seeds, ncalls >>

\* The read of the map ends.
ReadDone ==
    /\ reader # "idle" /\ reader' = "idle"
    /\ UNCHANGED << dvars, pods, last, Lock, call, seeds, ncalls >>

\* The steps of the workers of the Assume of caller c.
Workers(c) ==
    \E w \in 1..NumWorkers :
        \/ Receive(c, w)
        \/ Default(c, w)
        \/ CleanPlan(c, w)
        \/ NodeInfoAssume(c, w)

ConcurrentNext ==
    \/ \E c \in Callers : CallStart(c, MaxCalls)
    \/ \E c \in Callers, op \in Ops, uid \in UIDs, nodes \in CandidateLists :
          Enter(c, op, uid, nodes)
    \/ \E c \in Callers : Lookup(c)
    \/ \E c \in Callers : Seed(c)
    \/ \E c \in Callers : Body(c)
    \/ \E c \in Callers : Spawn(c)
    \/ \E c \in Callers : Workers(c)
    \/ \E c \in Callers : Join(c)
    \/ \E c \in Callers : Unlock(c)
    \/ Status
    \/ PrintStatus
    \/ ReadDone

ConcurrentSpec == Init /\ [][ConcurrentNext]_vars

\* One filter request: a single Assume, over any candidate list.
FanOutCaller ==
    \/ CallStart(1, 1)
    \/ \E uid \in UIDs, nodes \in FilterLists : Enter(1, "Assume", uid, nodes)
    \/ Lookup(1)
    \/ Seed(1)
    \/ Spawn(1)
    \/ Join(1)
    \/ Unlock(1)

FanOutNext == FanOutCaller \/ Workers(1)

\* A worker is at the call of NodeInfo.Assume: what enables NodeInfoAssume.
AtAssume(c, w) == call[c].pc = "wait" /\ call[c].workers[w].pc = "assume"

\* The Go scheduler runs every goroutine that can take a step, and the
\* cluster API answers: weak fairness of the caller and of each worker.
\* The weak fairness of NodeInfoAssume is written out, with AtAssume as
\* its enabling condition.
FanOutSpec ==
    /\ Init /\ [][FanOutNext]_vars
    /\ WF_vars(FanOutCaller)
    /\ \A w \in 1..NumWorkers :
          /\ WF_vars(Receive(1, w) \/ Default(1, w) \/ CleanPlan(1, w))
          /\ ([]<>(~AtAssume(1, w)) \/ []<><<NodeInfoAssume(1, w)>>_vars)

(***************************************************************************)
(* Properties.                                                             *)
(***************************************************************************)
\* The GPUs of the nodes the dealer holds, as (node, index) pairs.
HeldGPUs == {gi \in Nodes \X (0..1) :
               gi[1] \in DOMAIN NodeMaps /\ gi[2] \in DOMAIN NodeMaps[gi[1]].GPUs}
GPUOf(gi) == NodeMaps[gi[1]].GPUs[gi[2]]

\* C1: in every reachable state every GPU of every NodeInfo has
\* 0 <= committed core <= total core and 0 <= committed memory <= total
\* memory.
C1_CommittedWithinTotal ==
    \A gi \in HeldGPUs :
        /\ 0 <= GPUOf(gi).core /\ GPUOf(gi).core <= TotalCore
        /\ 0 <= GPUOf(gi).memory /\ GPUOf(gi).memory <= TotalMemory

\* A GPU committed to exactly its capacity, while a call that would put more
\* on the node has just been refused.
C1_Witness ==
    /\ \E gi \in HeldGPUs :
          GPUOf(gi).core = TotalCore /\ GPUOf(gi).memory = TotalMemory
    /\ last.op = "Allocate" /\ last.err /\ last.cached
    /\ pods[last.uid].GPUIndexes # << >>

\* The counters a node would hold if exactly the plans of the pods of
\* PodMaps that run on it were committed.
RECURSIVE CommitAll(_, _)
CommitAll(gpus, todo) ==
    IF todo = {} THEN gpus
    ELSE LET u == CHOOSE x \in todo : TRUE
         IN  CommitAll(Commit(gpus, NewPlanFromPod(PodObject(pods, u)).plan, 1),
                       todo \ {u})

\* C2: for every node the committed core and memory of each GPU equal the
\* sum of the container demands of exactly the pods of PodMaps whose plan
\* places a container on that GPU.
C2_CommittedIsSumOverPodMaps ==
    \A n \in DOMAIN NodeMaps :
        NodeMaps[n].GPUs =
            CommitAll(NewNodeInfo(n).GPUs,
                      {u \in DOMAIN PodMaps : pods[u].NodeName = n})

\* C3: no pod UID is in both PodMaps and ReleasedPodMap.
C3_KnownAndReleasedDisjoint == (DOMAIN PodMaps) \cap ReleasedPodMap = {}

\* C4: Bind returns nil only when the annotation update and the Binding
\* both succeeded.
C4_BindNilOnlyWhenUpdatedAndBound ==
    (last.op = "Bind" /\ ~last.err) => (last.updOK /\ last.bound)

\* C5 as stated: when the first update of a Bind meets the conflict, Bind
\* re-fetches the pod once and, the re-fetch succeeding, updates once
\* more; if that retry succeeds Bind issues the Binding and succeeds with
\* the plan in the pod's annotations; if the re-fetch or the retry fails
\* Bind returns the error with no further retry and no Binding.
C5_RetryOnceThenSucceeds ==
    (last.op = "Bind" /\ last.conflict) =>
        /\ last.gets = 1
        /\ last.updates = (IF last.getOK THEN 2 ELSE 1)
        /\ last.retryOK =>
              /\ last.issued
              /\ ~last.err
              /\ pods[last.uid].GPUIndexes = last.plan.GPUIndexes
        /\ ~last.retryOK => (last.err /\ ~last.issued)

\* C5 amended: as above, but after a successful retry Bind returns what
\* the Binding returns: nil, with the pod recorded, when the Binding is
\* created, the Binding's error otherwise; the plan is in the pod's
\* annotations either way.
C5_RetryOnceThenBinding ==
    (last.op = "Bind" /\ last.conflict) =>
        /\ last.gets = 1
        /\ last.updates = (IF last.getOK THEN 2 ELSE 1)
        /\ last.retryOK =>
              /\ last.issued
              /\ last.err = ~last.bound
              /\ ~last.err => last.uid \in DOMAIN PodMaps
              /\ pods[last.uid].GPUIndexes = last.plan.GPUIndexes
        /\ ~last.retryOK => (last.err /\ ~last.issued)

\* A Bind that met the conflict, retried with success and bound the pod.
C5_Witness ==
    /\ last.op = "Bind" /\ last.conflict /\ last.retryOK
    /\ last.bound /\ ~last.err

\* C6: a Release right after the Allocate of the same pod (UID not known
\* before, node held, plan valid) returns nil and leaves every GPU of the
\* node with the committed core and memory it had before the Allocate.
C6_ReleaseRestoresAllocate ==
    (last.op = "Release" /\ last.fresh) =>
        /\ ~last.err
        /\ NodeMaps[last.nodes[1]].GPUs = last.snap

\* A Release right after an Allocate that committed the pod's plan.
C6_Witness ==
    /\ last.op = "Release" /\ last.fresh /\ ~last.err
    /\ last.uid \in ReleasedPodMap

\* The dealer after the step, and the pod the step's call was about.
After == Dealer(NodeMaps', PodMaps', ReleasedPodMap')
Called == PodObject(pods, last'.uid)
DealerUnchanged ==
    /\ NodeMaps' = NodeMaps
    /\ PodMaps' = PodMaps
    /\ ReleasedPodMap' = ReleasedPodMap

\* C7: an Allocate of a pod whose UID is in PodMaps on entry returns nil
\* and changes neither the GPU counters nor PodMaps nor ReleasedPodMap.
C7_AllocateKnownIsNoOp ==
    [][(last'.op = "Allocate" /\ last'.known) =>
          (~last'.err /\ DealerUnchanged)]_vars

\* An Allocate of a known pod has returned nil; the pod's plan is committed
\* once on its node.
C7_Witness ==
    /\ last.op = "Allocate" /\ last.known /\ ~last.err
    /\ NodeMaps[pods[last.uid].NodeName].GPUs =
          Commit(NewNodeInfo(pods[last.uid].NodeName).GPUs,
                 NewPlanFromPod(PodObject(pods, last.uid)).plan, 1)

\* C8 as stated: a Release of a pod whose UID is not in PodMaps on entry
\* returns nil and leaves the GPU counters, PodMaps and ReleasedPodMap
\* unchanged, also when the pod's node cannot be resolved.
C8_ReleaseAbsentIsNoOp ==
    [][(last'.op = "Release" /\ ~last'.known) =>
          (~last'.err /\ DealerUnchanged)]_vars

\* C8 amended: a Release of a pod whose UID is not in PodMaps on entry
\*   - returns nil and changes nothing when the pod's node is in NodeMaps;
\*   - returns the error and changes nothing when the node cannot be
\*     resolved;
\*   - returns nil when the call itself seeds the node (the seeding stays,
\*     and the pod, if the seeding admitted it, is released).
C8_ReleaseAbsent ==
    [][(last'.op = "Release" /\ ~last'.known) =>
          /\ last'.cached => (~last'.err /\ DealerUnchanged)
          /\ ~last'.resolved => (last'.err /\ DealerUnchanged)
          /\ (~last'.cached /\ last'.resolved) =>
                (~last'.err /\ ~KnownPod(After, Called))]_vars

\* A Release of a pod already released has returned nil.
C8_Witness ==
    /\ last.op = "Release" /\ ~last.known /\ last.released
    /\ last.cached /\ ~last.err

\* C9: a successful Release of a pod whose UID is in PodMaps subtracts the
\* pod's plan from its node's counters and moves the UID to
\* ReleasedPodMap: KnownPod is false and PodReleased true after it;
\* PodReleased stays true over every call that is not Forget of the pod,
\* and is false after Forget of the pod.
C9_ReleaseMovesToReleased ==
    [][/\ (last'.op = "Release" /\ last'.known /\ ~last'.err) =>
             /\ ~KnownPod(After, Called)
             /\ PodReleased(After, Called)
             /\ NodeMaps'[Called.NodeName].GPUs =
                   Revert(NodeMaps[Called.NodeName].GPUs,
                          NewPlanFromPod(Called).plan, 1)
       /\ \A u \in ReleasedPodMap :
             ~(last'.op = "Forget" /\ last'.uid = u) => u \in ReleasedPodMap'
       /\ last'.op = "Forget" => ~PodReleased(After, Called)]_vars

\* A released pod has been forgotten.
C9_Witness ==
    /\ last.op = "Forget" /\ last.released
    /\ last.uid \notin ReleasedPodMap /\ last.uid \notin DOMAIN PodMaps

\* C10: Forget returns nil for any pod; afterwards the UID is in neither
\* PodMaps nor ReleasedPodMap, the entries of the other UIDs are as they
\* were, and a second Forget changes nothing.
C10_ForgetIdempotent ==
    [][last'.op = "Forget" =>
          /\ ~last'.err
          /\ ~KnownPod(After, Called) /\ ~PodReleased(After, Called)
          /\ \A u \in UIDs \ {last'.uid} :
                /\ (u \in DOMAIN PodMaps') = (u \in DOMAIN PodMaps)
                /\ u \in DOMAIN PodMaps => PodMaps'[u] = PodMaps[u]
                /\ (u \in ReleasedPodMap') = (u \in ReleasedPodMap)
          /\ Forget(After, Called) = [err |-> FALSE, d |-> After]]_vars

\* A pod known to the dealer, with another pod known too, has been
\* forgotten.
C10_Witness ==
    /\ last.op = "Forget" /\ last.known
    /\ DOMAIN PodMaps # {}

\* C11: an Assume that returns false for a node leaves every GPU of that
\* node with the committed core and memory it had before the call, also
\* when the node carried a tentative plan from an earlier Assume and when
\* only some containers of the pod fit.
C11_FailedAssumeKeepsCommitted ==
    [][last'.op = "Assume" =>
          \A i \in 1..Len(last'.nodes) :
             (~last'.ans[i] /\ last'.nodes[i] \in DOMAIN NodeMaps) =>
                 NodeMaps'[last'.nodes[i]].GPUs = NodeMaps[last'.nodes[i]].GPUs]_vars

\* C12: Assume returns one bool and one error per candidate, in input
\* order; a candidate that cannot be resolved gets false with an error and
\* the others are still evaluated (the fit of each decides its cell, a
\* fitting node carries the pod's tentative plan), so the filter response
\* has every candidate either among the passing nodes or in the failed-node
\* map with a reason.
C12_AssumePerNodeCells ==
    [][last'.op = "Assume" =>
          LET nodes == last'.nodes
              ans == last'.ans
              res == last'.res
              demand == NewDemandFromPod(last'.uid)
              h == Handler(nodes, ans, res)
          IN  /\ Len(ans) = Len(nodes) /\ Len(res) = Len(nodes)
              /\ \A i \in 1..Len(nodes) :
                    /\ nodes[i] \notin DOMAIN NodeMaps' => (~ans[i] /\ res[i])
                    /\ nodes[i] \in DOMAIN NodeMaps' =>
                          /\ res[i] = ~ans[i]
                          /\ ans[i] => NodeMaps'[nodes[i]].plan.Demand = demand
                    /\ nodes[i] \in DOMAIN NodeMaps =>
                          ans[i] = NodeAssume(cleanPlan(NodeMaps[nodes[i]]),
                                              demand, Priority).ok
              /\ ~h.panic
              /\ \A i \in 1..Len(nodes) :
                    /\ ans[i] <=> \E k \in 1..Len(h.NodeNames) : h.NodeNames[k] = nodes[i]
                    /\ ~ans[i] <=> nodes[i] \in h.FailedNodes]_vars

\* A filter over two candidates: one could not be resolved, the other was
\* evaluated and passes.
C12_Witness ==
    /\ last.op = "Assume" /\ Len(last.nodes) = 2
    /\ \E i, j \in 1..2 :
          /\ last.nodes[i] \notin DOMAIN NodeMaps /\ ~last.ans[i] /\ last.res[i]
          /\ last.ans[j]
          /\ Handler(last.nodes, last.ans, last.res).NodeNames = << last.nodes[j] >>
          /\ Handler(last.nodes, last.ans, last.res).FailedNodes = {last.nodes[i]}

\* C13: Score returns one integer per candidate, in input order, each
\* within [ScoreMin, ScoreMax]; a candidate that cannot be resolved scores
\* ScoreMin, and every other candidate is scored by its node whatever
\* happened to the candidates before it; the priority list names host i
\* with score i.
C13_ScorePerNode ==
    [][last'.op = "Score" =>
          LET nodes == last'.nodes
              scores == last'.scores
              hp == Prioritize(nodes, scores)
          IN  /\ Len(scores) = Len(nodes)
              /\ \A i \in 1..Len(nodes) :
                    /\ scores[i] \in ScoreMin..ScoreMax
                    /\ nodes[i] \notin DOMAIN NodeMaps' => scores[i] = ScoreMin
                    /\ nodes[i] \in DOMAIN NodeMaps' =>
                          scores[i] = NodeScore(NodeMaps'[nodes[i]],
                                                NewDemandFromPod(last'.uid), Priority)
                    /\ hp[i].Host = nodes[i] /\ hp[i].Score = scores[i]]_vars

\* A ranking of two candidates: the first could not be resolved and scores
\* ScoreMin, the second is scored above it.
C13_Witness ==
    /\ last.op = "Score" /\ Len(last.nodes) = 2
    /\ last.nodes[1] \notin DOMAIN NodeMaps /\ last.scores[1] = ScoreMin
    /\ last.scores[2] > ScoreMin

\* The pod of the call is recorded by the step: its UID enters PodMaps or
\* the object under it changes.
Recorded ==
    /\ last'.uid \in DOMAIN PodMaps'
    /\ last'.uid \in DOMAIN PodMaps => PodMaps'[last'.uid] # PodMaps[last'.uid]

\* C18 as stated: within Bind a Binding is issued only after a pod update
\* has succeeded, the pod is recorded in PodMaps only after the Binding has
\* succeeded, and on every path where Bind returns an error PodMaps and
\* ReleasedPodMap are unchanged.
C18_BindGatedErrorChangesNothing ==
    [][last'.op = "Bind" =>
          /\ last'.issued => last'.updOK
          /\ Recorded => last'.bound
          /\ last'.err => (PodMaps' = PodMaps /\ ReleasedPodMap' = ReleasedPodMap)]_vars

\* C18 amended: as above, but on a path where Bind returns an error
\* PodMaps is unchanged only when the node was in NodeMaps on entry; a Bind
\* that seeds the node first keeps the pods the seeding admitted (pods of
\* that node, not the pod being bound), whatever it returns.
C18_BindGatedErrorRecordsNothing ==
    [][last'.op = "Bind" =>
          /\ last'.issued => last'.updOK
          /\ Recorded => last'.bound
          /\ last'.err =>
                /\ ReleasedPodMap' = ReleasedPodMap
                /\ last'.cached => PodMaps' = PodMaps
                /\ \A u \in DOMAIN PodMaps :
                      u \in DOMAIN PodMaps' /\ PodMaps'[u] = PodMaps[u]
                /\ \A u \in (DOMAIN PodMaps') \ (DOMAIN PodMaps) :
                      /\ u # last'.uid
                      /\ pods[u].NodeName = last'.nodes[1]]_vars

\* A Bind whose pod update succeeded and whose Binding failed has returned
\* the error; the pod is not recorded.
C18_Witness ==
    /\ last.op = "Bind" /\ last.err
    /\ last.updOK /\ last.issued /\ ~last.bound
    /\ last.uid \notin DOMAIN PodMaps

\* C20: when getNodeInfo fails to resolve a node (the node lookup or the
\* pod list fails) no NodeInfo is recorded for the name, so that a later
\* reference asks the cluster again and, answered, seeds the node; nothing
\* the dealer holds changes: an Allocate, a Release or a Bind that hits the
\* failure returns the error with NodeMaps, PodMaps, ReleasedPodMap and
\* every GPU counter as they were, and an Assume or a Score changes nothing
\* on account of the failed name.
C20_FailedSeedingRecordsNothing ==
    [][/\ \A n \in last'.failed :
             /\ n \notin DOMAIN NodeMaps'
             /\ n # NoNode =>
                   LET g == getNodeInfo(After, pods', n, "ok")
                   IN  ~g.err /\ n \in DOMAIN g.d.NodeMaps
       /\ (last'.op \in {"Allocate", "Release", "Bind"} /\ last'.failed # {}) =>
             (last'.err /\ DealerUnchanged)
       /\ (last'.op \in {"Assume", "Score"} /\ last'.failed # {}) =>
             /\ ReleasedPodMap' = ReleasedPodMap
             /\ \A u \in (DOMAIN PodMaps') \ (DOMAIN PodMaps) :
                   pods[u].NodeName \notin last'.failed
             /\ \A n \in DOMAIN NodeMaps : n \in DOMAIN NodeMaps'
             /\ \A n \in (DOMAIN NodeMaps') \ (DOMAIN NodeMaps) :
                   \E i \in 1..Len(last'.nodes) : last'.nodes[i] = n]_vars

\* A Release of a pod bound on a node the dealer does not hold has met a
\* failed lookup of that node.
C20_Witness ==
    /\ last.op = "Release" /\ last.err
    /\ last.failed = {pods[last.uid].NodeName}
    /\ pods[last.uid].NodeName \in Nodes \ DOMAIN NodeMaps
    /\ pods[last.uid].GPUIndexes # << >>

\* A caller is inside a method of the dealer: past d.Lock.Lock() and not
\* yet through the deferred Unlock.
InBody(c) == call[c].pc \in {"resolve", "seed", "wait", "return"}

\* C14: Assume, Score, Bind, Allocate, Release and Forget hold the mutex
\* from entry to exit: a caller inside one of them is the holder of d.Lock,
\* so no two callers are inside at once, and the mutex is free again
\* whenever no caller is inside, whatever path the method returned by.
C14_MutexHeldFromEntryToExit ==
    /\ \A c \in Callers : InBody(c) => Lock = c
    /\ \A c1, c2 \in Callers : (InBody(c1) /\ InBody(c2)) => c1 = c2
    /\ (\A c \in Callers : ~InBody(c)) => Lock = 0

\* A method is returning an error, still holding the mutex, while another
\* caller waits in d.Lock.Lock().
C14_Witness ==
    \E c1, c2 \in Callers :
        /\ call[c1].pc = "return" /\ call[c1].err /\ Lock = c1
        /\ call[c2].pc = "lock"

\* C15: while the value Status returned is being read, or PrintStatus is
\* ranging over the map, no step writes NodeMaps or a GPU counter.
C15_StatusSnapshotNotMutated ==
    [][(reader # "idle" /\ reader' = reader) => NodeMaps' = NodeMaps]_vars

\* A worker is between taking an index and writing the result for it.
Busy(c, w) == call[c].workers[w].pc \in {"clean", "assume"}

\* C16: within one Assume no two workers are at cleanPlan/Assume on the
\* same NodeInfo at once, whatever the candidate list, and every index of
\* the queue is taken by exactly one worker.
C16_WorkersOnDisjointNodes ==
    \A c \in Callers :
        /\ call[c].pc = "wait" =>
              /\ \A w1, w2 \in 1..NumWorkers :
                    (w1 # w2 /\ Busy(c, w1) /\ Busy(c, w2)) =>
                        call[c].nodes[call[c].workers[w1].number]
                            # call[c].nodes[call[c].workers[w2].number]
              /\ \A i \in 1..Len(call[c].nodes) : call[c].taken[i] <= 1
        /\ (call[c].pc = "return" /\ call[c].op = "Assume") =>
              \A i \in 1..Len(call[c].nodes) : call[c].taken[i] = 1

\* C17: a name that is in NodeMaps stays in NodeMaps with the NodeInfo it
\* has (no step creates another one for it), and getNodeInfo creates a
\* NodeInfo at most once per name, however the callers interleave.
C17_SeedingOneShot ==
    [][\A n \in Nodes :
          /\ n \in DOMAIN NodeMaps => (n \in DOMAIN NodeMaps' /\ seeds'[n] = seeds[n])
          /\ seeds'[n] \in {0, 1}]_vars

\* A method has seeded a node while another caller was waiting for the
\* mutex.
C17_Witness ==
    \E c1, c2 \in Callers :
        /\ call[c1].seeded # {} /\ call[c1].pc = "return"
        /\ \A n \in call[c1].seeded : seeds[n] = 1 /\ n \in DOMAIN NodeMaps
        /\ call[c2].pc = "lock"

\* What holds of the fan-out of an Assume at every moment: the queue holds
\* all the indices, in order, until a worker takes one; a worker returns
\* only on an empty queue; and when Assume is about to return every worker
\* has returned, every index of a resolved node has had its fit evaluated
\* exactly once with the result in its cells, and every other index has
\* false and the error in its cells.
FanOutDone(c) ==
    LET k == call[c]
        n == Len(k.nodes)
    IN  /\ (k.pc = "wait" /\ \A i \in 1..n : k.taken[i] = 0) =>
              k.ch = [i \in 1..n |-> i]
        /\ k.pc = "wait" =>
              \A w \in 1..NumWorkers : k.workers[w].pc = "done" => k.ch = << >>
        /\ (k.pc = "return" /\ k.op = "Assume") =>
              /\ k.ch = << >>
              /\ \A w \in 1..NumWorkers : k.workers[w].pc = "done"
              /\ \A i \in 1..n :
                    IF k.resolved[i]
                    THEN k.evals[i] = 1 /\ k.res[i] = ~k.ans[i]
                    ELSE k.evals[i] = 0 /\ ~k.ans[i] /\ k.res[i]

\* C19: every Assume terminates, and it returns only after the fan-out is
\* done as above.
C19_AssumeTerminates ==
    /\ [](\A c \in Callers : FanOutDone(c))
    /\ \A c \in Callers : (call[c].pc = "resolve") ~> (call[c].pc = "idle")

\* An Assume over a full candidate list is about to return, every index
\* evaluated.
C19_Witness ==
    \E c \in Callers :
        /\ call[c].pc = "return" /\ call[c].op = "Assume"
        /\ Len(call[c].nodes) = MaxCandidates
        /\ \A i \in 1..MaxCandidates : call[c].evals[i] = 1

=============================================================================
